---------------------------- MODULE Spec2Model ----------------------------
(***************************************************************************)
(* A model of telegrama-rs: the message formatter (src/src/formatter.rs),  *)
(* the settings singleton (src/src/configuration.rs) and the delivery      *)
(* client with its dialect fallback cascade (src/src/client.rs).           *)
(*                                                                         *)
(* Text is a sequence of one-character strings (the backtick, which a TLA+  *)
(* string cannot hold, is the string "backtick").  An Option<T> is a       *)
(* sequence of length at most one: None is <<>>, Some(x) is <<x>>.         *)
(* A remote description or error message is a sequence of words, so that   *)
(* `contains("parse_mode")` is membership of the word "parse_mode".        *)
(*                                                                         *)
(* Spec       one caller thread: configure(...) calls and send_message     *)
(*            calls, the latter split at its formatting passes and its     *)
(*            transport requests.                                          *)
(* SpecEscape Formatter::escape_markdown_v2 applied once and twice to      *)
(*            every text of bounded length.                                *)
(* SpecStrip, SpecCode, SpecLink, SpecTruncate, SpecObfuscate              *)
(*            the formatter's functions applied to bounded inputs.         *)
(* SpecConc   concurrent threads calling configure and send_message, the   *)
(*            settings mutex taken and released step by step.              *)
(***************************************************************************)
EXTENDS Naturals, Sequences, FiniteSets, TLC

VARIABLES
    config,     \* the shared Configuration behind the mutex
    nconf,      \* number of configure calls made so far
    pc,         \* position of the caller inside Client::send_message
    message,    \* send_message's `message` argument
    options,    \* send_message's `options` argument
    snapshot,   \* `config`: the clone taken at client.rs:62
    fmtopts,    \* `formatting_options` of client.rs:103
    mode,       \* `parse_mode` of client.rs:107-119
    pending,    \* the text formatted for the next submission
    subs,       \* the calls of send_message_request made by this call
    posts,      \* number of HTTP POSTs issued by this call
    errlog,     \* the errors send_message logged at client.rs:189 and :242
    result,     \* what send_message returned
    tin,        \* input of the formatter function under study
    tout,       \* its successive outputs
    lock,       \* the thread holding the settings mutex, 0 when it is free
    threads,    \* the position and locals of each concurrent thread
    started     \* number of operations the concurrent threads have started

vars == <<config, nconf, pc, message, options, snapshot, fmtopts, mode,
          pending, subs, posts, errlog, result, tin, tout, lock, threads,
          started>>

callvars == <<pc, message, options, snapshot, fmtopts, mode, pending, subs,
              posts, errlog, result>>

concvars == <<lock, threads, started>>

-----------------------------------------------------------------------------
(* Option<T> *)

None == <<>>

Some(x) == <<x>>

IsSome(o) == o # <<>>

Unwrap(o) == o[1]

-----------------------------------------------------------------------------
(* Bounds of the model *)

\* longest text given to the formatter functions under SpecEscape
MaxTextLen == 3

\* most configure calls in one behaviour
MaxConfigure == 3

\* number of concurrent threads, and of the operations they start in all
NThreads == 2

MaxOps == 3

\* longest code body, link label and link target escaped on their own
MaxSpanLen == 2

\* longest text truncated on its own, and the largest limit
MaxTruncLen == 4

\* longest local part of the addresses obfuscated on their own
MaxLocalLen == 7

\* longest text put between two code delimiters under SpecFence
MaxFenceLen == 3

\* longest text formatted on its own, and the largest truncation limit
MaxFormatLen == 3

MaxCutLen == 5

-----------------------------------------------------------------------------
(* src/src/formatter.rs *)

\* the character '`'
Backtick == "backtick"

\* MARKDOWN_SPECIAL_CHARS, in the order of the source
MARKDOWN_SPECIAL_CHARS ==
    << "_", "*", "[", "]", "(", ")", "~", Backtick, ">", "#", "+", "-", "=", "|",
       "{", "}", ".", "!" >>

IsSpecial(c) == \E k \in 1..Len(MARKDOWN_SPECIAL_CHARS) : MARKDOWN_SPECIAL_CHARS[k] = c

Letters ==
    { "a", "b", "c", "d", "e", "f", "g", "h", "i", "j", "k", "l", "m", "n",
      "o", "p", "q", "r", "s", "t", "u", "v", "w", "x", "y", "z",
      "A", "B", "C", "D", "E", "F", "G", "H", "I", "J", "K", "L", "M", "N",
      "O", "P", "Q", "R", "S", "T", "U", "V", "W", "X", "Y", "Z" }

Digits == { "0", "1", "2", "3", "4", "5", "6", "7", "8", "9" }

\* \w of the regex crate, restricted to ASCII
IsWordChar(c) == c \in Letters \cup Digits \cup {"_"}

\* the smallest j >= from with t[j] = ch, or 0
FirstIndexOf(t, ch, from) ==
    LET hits == { j \in from..Len(t) : t[j] = ch }
    IN  IF hits = {} THEN 0 ELSE CHOOSE j \in hits : \A k \in hits : j <= k

RECURSIVE ConcatMap(_, _)
\* the concatenation of f[t[1]], f[t[2]], ...
ConcatMap(f, t) ==
    IF t = <<>> THEN <<>> ELSE f[Head(t)] \o ConcatMap(f, Tail(t))

\* str::replace(ch, "\\ch")
EscapeChar(t, ch) ==
    ConcatMap([c \in {t[k] : k \in 1..Len(t)} |-> IF c = ch THEN <<"\\", c>> ELSE <<c>>], t)

\* the closure's escaped_text: every special character of the label gets a backslash
EscapeLinkText(label) ==
    ConcatMap([c \in {label[k] : k \in 1..Len(label)} |->
                  IF IsSpecial(c) THEN <<"\\", c>> ELSE <<c>>], label)

RECURSIVE EscapeUrlFrom(_, _)
\* the closure's loop over MARKDOWN_SPECIAL_CHARS, from its k-th character on
EscapeUrlFrom(url, k) ==
    IF k > Len(MARKDOWN_SPECIAL_CHARS) THEN url
    ELSE LET ch == MARKDOWN_SPECIAL_CHARS[k]
         IN  IF ch # "/" /\ ch # ":" /\ ch # "." /\ ch # "-"
             THEN EscapeUrlFrom(EscapeChar(url, ch), k + 1)
             ELSE EscapeUrlFrom(url, k + 1)

\* the target escaped like the label, '/', ':', '.' and '-' included
EscapeLinkUrl_all(url) == EscapeLinkText(url)

\* the closure's escaped_url
EscapeLinkUrl(url) == EscapeUrlFrom(url, 1)

\* LINK_REGEX \[([^\]]+)\]\(([^)]+)\) matched at position i:
\* <<j, k>>, the places of its ']' and its ')', or <<>> when it does not match
LinkMatchAt(t, i) ==
    IF t[i] # "[" THEN <<>>
    ELSE LET j == FirstIndexOf(t, "]", i + 1)
         IN  IF j < i + 2 \/ j + 1 > Len(t) THEN <<>>
             ELSE IF t[j + 1] # "(" THEN <<>>
             ELSE LET k == FirstIndexOf(t, ")", j + 2)
                  IN  IF k < j + 3 THEN <<>> ELSE <<j, k>>

RECURSIVE PreProcessLinksFrom(_, _)
\* replace_all: the leftmost match, then on from its end
PreProcessLinksFrom(t, i) ==
    IF i > Len(t) THEN <<>>
    ELSE LET m == LinkMatchAt(t, i)
         IN  IF m = <<>> THEN <<t[i]>> \o PreProcessLinksFrom(t, i + 1)
             ELSE <<"[">> \o EscapeLinkText(SubSeq(t, i + 1, m[1] - 1))
                  \o <<"]", "(">> \o EscapeLinkUrl(SubSeq(t, m[1] + 2, m[2] - 1))
                  \o <<")">> \o PreProcessLinksFrom(t, m[2] + 1)

pre_process_links(t) == PreProcessLinksFrom(t, 1)

\* the state of the scan before its first character
ScanInit ==
    [ in_code_block |-> FALSE, in_pre_block |-> FALSE, in_bold |-> FALSE,
      in_italic |-> FALSE, in_link_text |-> FALSE, in_link_url |-> FALSE ]

\* a loop body that pushes every character as it reads it
ScanStep_copy(t, i, st) == [ emit |-> <<t[i]>>, next |-> i + 1, st |-> st ]

\* one turn of the `while let` loop at character i: what is pushed, the
\* state after it, and the next character to read
ScanStep(t, i, st) ==
    LET c == t[i]
        peek1 == IF i + 1 <= Len(t) THEN <<t[i + 1]>> ELSE <<>>
        peek2 == IF i + 2 <= Len(t) THEN <<t[i + 2]>> ELSE <<>>
        code == st.in_code_block \/ st.in_pre_block
    IN  IF c = Backtick THEN
            IF ~st.in_code_block /\ peek1 = <<Backtick>> /\ peek2 = <<Backtick>>
            THEN [ emit |-> <<c, Backtick, Backtick>>, next |-> i + 3,
                   st |-> [st EXCEPT !.in_pre_block = ~st.in_pre_block] ]
            ELSE [ emit |-> <<c>>, next |-> i + 1,
                   st |-> [st EXCEPT !.in_code_block = ~st.in_code_block] ]
        ELSE IF c = "*" /\ ~code THEN
            [ emit |-> <<c>>, next |-> i + 1,
              st |-> [st EXCEPT !.in_bold = ~st.in_bold] ]
        ELSE IF c = "_" /\ ~code THEN
            [ emit |-> <<c>>, next |-> i + 1,
              st |-> [st EXCEPT !.in_italic = ~st.in_italic] ]
        ELSE IF c = "[" /\ ~code /\ ~st.in_link_text THEN
            [ emit |-> <<c>>, next |-> i + 1,
              st |-> [st EXCEPT !.in_link_text = TRUE] ]
        ELSE IF c = "]" /\ ~code /\ st.in_link_text THEN
            [ emit |-> <<c>>, next |-> i + 1,
              st |-> [st EXCEPT !.in_link_text = FALSE,
                                !.in_link_url = IF peek1 = <<"(">> THEN TRUE
                                                ELSE st.in_link_url] ]
        ELSE IF c = "(" /\ ~code /\ ~st.in_link_text /\ st.in_link_url THEN
            [ emit |-> <<c>>, next |-> i + 1, st |-> st ]
        ELSE IF c = ")" /\ ~code /\ st.in_link_url THEN
            [ emit |-> <<c>>, next |-> i + 1,
              st |-> [st EXCEPT !.in_link_url = FALSE] ]
        ELSE IF ~code /\ ~st.in_bold /\ ~st.in_italic /\ ~st.in_link_text
                /\ ~st.in_link_url /\ IsSpecial(c) THEN
            [ emit |-> <<"\\", c>>, next |-> i + 1, st |-> st ]
        ELSE
            [ emit |-> <<c>>, next |-> i + 1, st |-> st ]

RECURSIVE ScanFrom(_, _, _)
\* the `while let` loop from character i on: the turn s at character i,
\* then the loop from s.next on under the flags s.st (s ranges over the one
\* result of the turn, so that it is computed once)
ScanFrom(t, i, st) ==
    IF i > Len(t) THEN <<>>
    ELSE CHOOSE r \in { s.emit \o ScanFrom(t, s.next, s.st) :
                            s \in { ScanStep(t, i, st) } } : TRUE

\* Formatter::escape_markdown_v2; it returns Ok on every input (p is the
\* text pre_process_links returns, computed once)
escape_markdown_v2(t) ==
    IF t = <<>> THEN <<>>
    ELSE CHOOSE r \in { ScanFrom(p, 1, ScanInit) :
                            p \in { pre_process_links(t) } } : TRUE

RECURSIVE ScanStateFrom(_, _, _)
\* the flags of the `while let` loop once it has read t from character i on
ScanStateFrom(t, i, st) ==
    IF i > Len(t) THEN st
    ELSE LET s == ScanStep(t, i, st)
         IN  ScanStateFrom(t, s.next, s.st)

RECURSIVE ScanTrace(_, _, _)
\* the turns of the `while let` loop from character i on: for each turn
\* the character read, the flags it was read under and what was pushed
ScanTrace(t, i, st) ==
    IF i > Len(t) THEN <<>>
    ELSE LET s == ScanStep(t, i, st)
         IN  << [ at |-> i, st |-> st, emit |-> s.emit, next |-> s.next ] >>
                 \o ScanTrace(t, s.next, s.st)

\* the flags escape_markdown_v2 holds when it has read the whole of t
ScanState(t) == ScanStateFrom(pre_process_links(t), 1, ScanInit)

\* Formatter::escape_html
escape_html(t) ==
    ConcatMap([c \in {t[k] : k \in 1..Len(t)} |->
                  CASE c = "<" -> <<"&", "l", "t", ";">>
                    [] c = ">" -> <<"&", "g", "t", ";">>
                    [] c = "&" -> <<"&", "a", "m", "p", ";">>
                    [] OTHER   -> <<c>>], t)

\* the index of the last character of the run of characters of class that
\* starts at `from` (from - 1 when the run is empty)
RunEnd(class, t, from) ==
    LET stops == { j \in from..Len(t) : t[j] \notin class }
    IN  IF stops = {} THEN Len(t)
        ELSE (CHOOSE j \in stops : \A k \in stops : j <= k) - 1

\* [A-Za-z0-9._%+-]
LocalChars == Letters \cup Digits \cup {".", "_", "%", "+", "-"}

\* [A-Za-z0-9.-]
DomainChars == Letters \cup Digits \cup {".", "-"}

\* \b between t[p - 1] and t[p]
WordBoundary(t, p) ==
    (p > 1 /\ IsWordChar(t[p - 1])) # (p <= Len(t) /\ IsWordChar(t[p]))

\* EMAIL_REGEX \b[A-Za-z0-9._%+-]+@[A-Za-z0-9.-]+\.[A-Za-z]{2,}\b matched at
\* position i: <<j, e>>, the place of its '@' and of its last character, or
\* <<>>.  The local part ends at the first character outside its class; the
\* greedy domain takes the last '.' that two or more letters and a word
\* boundary follow.
EmailMatchAt(t, i) ==
    IF ~WordBoundary(t, i) THEN <<>>
    ELSE LET j == RunEnd(LocalChars, t, i) + 1
         IN  IF j = i \/ j > Len(t) THEN <<>>
             ELSE IF t[j] # "@" THEN <<>>
             ELSE LET r == RunEnd(DomainChars, t, j + 1)
                      dots == { d \in (j + 2)..r :
                                  /\ t[d] = "."
                                  /\ RunEnd(Letters, t, d + 1) >= d + 2
                                  /\ WordBoundary(t, RunEnd(Letters, t, d + 1) + 1) }
                  IN  IF dots = {} THEN <<>>
                      ELSE LET d == CHOOSE x \in dots : \A y \in dots : y <= x
                           IN  <<j, RunEnd(Letters, t, d + 1)>>

\* the closure keeping the last two characters of the username
ObfuscateMatch_two_kept(t, i, j, e) ==
    LET username == SubSeq(t, i, j - 1)
        domain == SubSeq(t, j + 1, e)
    IN  IF Len(username) <= 3 THEN SubSeq(t, i, e)
        ELSE SubSeq(username, 1, 3) \o <<".", ".", ".">>
             \o SubSeq(username, Len(username) - 1, Len(username))
             \o <<"@">> \o domain

\* the closure of obfuscate_emails, on the match t[i..e] whose '@' is t[j]
ObfuscateMatch(t, i, j, e) ==
    LET username == SubSeq(t, i, j - 1)
        domain == SubSeq(t, j + 1, e)
    IN  IF Len(username) <= 3 THEN SubSeq(t, i, e)
        ELSE SubSeq(username, 1, 3) \o <<".", ".", ".">>
             \o SubSeq(username, Len(username), Len(username))
             \o <<"@">> \o domain

RECURSIVE ObfuscateFrom(_, _)
\* replace_all: the leftmost match, then on from its end
ObfuscateFrom(t, i) ==
    IF i > Len(t) THEN <<>>
    ELSE LET m == EmailMatchAt(t, i)
         IN  IF m = <<>> THEN <<t[i]>> \o ObfuscateFrom(t, i + 1)
             ELSE ObfuscateMatch(t, i, m[1], m[2]) \o ObfuscateFrom(t, m[2] + 1)

\* Formatter::obfuscate_emails
obfuscate_emails(t) == ObfuscateFrom(t, 1)

RECURSIVE StripLinksFrom(_, _)
\* strip_markdown's replace_all(link_regex, "$1"): the leftmost match is
\* replaced by its label, then on from its end
StripLinksFrom(t, i) ==
    IF i > Len(t) THEN <<>>
    ELSE LET m == LinkMatchAt(t, i)
         IN  IF m = <<>> THEN <<t[i]>> \o StripLinksFrom(t, i + 1)
             ELSE SubSeq(t, i + 1, m[1] - 1) \o StripLinksFrom(t, m[2] + 1)

\* Formatter::strip_markdown: '*', '_' and '`' are deleted, then every
\* [label](target) is replaced by its label
strip_markdown(t) ==
    LET no_format == SelectSeq(t, LAMBDA c : c \notin {"*", "_", Backtick})
    IN  StripLinksFrom(no_format, 1)

\* Formatter::truncate.  `max_length - 3` is a usize subtraction and
\* text[..n] a checked slice: with max_length < 3 and no space to cut at,
\* the function panics.
truncate(t, max_length) ==
    IF Len(t) <= max_length THEN [panic |-> FALSE, text |-> t]
    ELSE LET spaces == { p \in 1..max_length : t[p] = " " }
         IN  IF spaces # {}
             THEN LET last_space == CHOOSE p \in spaces : \A q \in spaces : q <= p
                  IN  [panic |-> FALSE,
                       text |-> SubSeq(t, 1, last_space - 1) \o <<".", ".", ".">>]
             ELSE IF max_length < 3 THEN [panic |-> TRUE, text |-> <<>>]
             ELSE [panic |-> FALSE,
                   text |-> SubSeq(t, 1, max_length - 3) \o <<".", ".", ".">>]

\* format with the prefix and the suffix put around the escaped text
format_affixes_last(text, opts, cfg) ==
    LET t3 == IF opts.escape_html THEN escape_html(text) ELSE text
        t4 == IF opts.obfuscate_emails THEN obfuscate_emails(t3) ELSE t3
        t5 == IF opts.escape_markdown THEN escape_markdown_v2(t4) ELSE t4
        t6 == IF IsSome(cfg.message_prefix)
              THEN Unwrap(cfg.message_prefix) \o t5 ELSE t5
        t7 == IF IsSome(cfg.message_suffix)
              THEN t6 \o Unwrap(cfg.message_suffix) ELSE t6
    IN  IF IsSome(opts.truncate) THEN truncate(t7, Unwrap(opts.truncate))
        ELSE [panic |-> FALSE, text |-> t7]

\* Formatter::format(text, Some(opts)) run against the settings clone cfg:
\* prefix, suffix, HTML escaping, e-mail obfuscation, Markdown escaping,
\* truncation.  It returns Ok(text) or panics in truncate.
format(text, opts, cfg) ==
    LET t1 == IF IsSome(cfg.message_prefix)
              THEN Unwrap(cfg.message_prefix) \o text ELSE text
        t2 == IF IsSome(cfg.message_suffix)
              THEN t1 \o Unwrap(cfg.message_suffix) ELSE t1
        t3 == IF opts.escape_html THEN escape_html(t2) ELSE t2
        t4 == IF opts.obfuscate_emails THEN obfuscate_emails(t3) ELSE t3
        t5 == IF opts.escape_markdown THEN escape_markdown_v2(t4) ELSE t4
    IN  IF IsSome(opts.truncate) THEN truncate(t5, Unwrap(opts.truncate))
        ELSE [panic |-> FALSE, text |-> t5]

-----------------------------------------------------------------------------
(* src/src/configuration.rs *)

\* FormattingOptions::default().truncate
DefaultTruncate == 4096

\* FormattingOptions::default()
DefaultFormattingOptions ==
    [ escape_markdown |-> TRUE, obfuscate_emails |-> FALSE,
      escape_html |-> FALSE, truncate |-> Some(DefaultTruncate) ]

\* Configuration::default() (client_options, which nothing reads, left out)
DefaultConfiguration ==
    [ bot_token |-> None, chat_id |-> None,
      default_parse_mode |-> Some("MarkdownV2"),
      disable_web_page_preview |-> TRUE,
      message_prefix |-> None, message_suffix |-> None,
      formatting_options |-> DefaultFormattingOptions ]

\* Configuration::get_cloned_instance: try_lock by the one thread of this
\* model always succeeds, and the clone is the stored value
get_cloned_instance == config

\* Configuration::set_default_parse_mode, set_message_prefix and
\* set_message_suffix: the empty value is stored as None
NoneIfEmpty(v, empty) == IF v = empty THEN None ELSE Some(v)

\* Configuration::bot_token
bot_token(cfg) ==
    IF IsSome(cfg.bot_token)
    THEN [ok |-> TRUE, value |-> Unwrap(cfg.bot_token)]
    ELSE [ok |-> FALSE, value |-> ""]

\* whether Configuration::validate rejects the stored default parse mode
InvalidDefaultParseMode(cfg) ==
    /\ IsSome(cfg.default_parse_mode)
    /\ LET m == Unwrap(cfg.default_parse_mode)
       IN  m = "" \/ (m # "MarkdownV2" /\ m # "HTML")

\* validate without its check of the default parse mode
validate_token_only(cfg) ==
    IF ~bot_token(cfg).ok
    THEN Some([kind |-> "Configuration",
               desc |-> <<"Bot", "token", "not", "configured">>])
    ELSE None

\* Configuration::validate: None when Ok, else the Configuration error
validate(cfg) ==
    IF ~bot_token(cfg).ok
    THEN Some([kind |-> "Configuration",
               desc |-> <<"Bot", "token", "not", "configured">>])
    ELSE IF InvalidDefaultParseMode(cfg)
    THEN Some([kind |-> "Configuration",
               desc |-> <<"Invalid", "parse", "mode:", Unwrap(cfg.default_parse_mode)>>])
    ELSE None

-----------------------------------------------------------------------------
(* src/src/client.rs *)

\* options.iter().find(|(k, _)| *k == key).map(|(_, v)| *v)
FindOption(opts, key) ==
    LET hits == { k \in 1..Len(opts) : opts[k][1] = key }
    IN  IF hits = {} THEN None
        ELSE Some(opts[CHOOSE k \in hits : \A j \in hits : k <= j][2])

\* value.to_lowercase() == "true"
IsTrueString(v) == v \in {"true", "True", "TRUE"}

\* value.parse::<usize>().ok(), on the decimal strings the model uses
ParseUsize(v) ==
    LET decimal == ("0" :> 0) @@ ("2" :> 2) @@ ("5" :> 5) @@ ("4096" :> 4096)
    IN  IF v \in DOMAIN decimal THEN Some(decimal[v]) ELSE None

RECURSIVE extract_formatting_options(_, _)
\* Client::extract_formatting_options: every option in order, the last
\* one of a key winning
extract_formatting_options(opts, fo) ==
    IF opts = <<>> THEN fo
    ELSE LET key == Head(opts)[1]
             value == Head(opts)[2]
             next ==
                 CASE key = "escape_markdown" ->
                        [fo EXCEPT !.escape_markdown = IsTrueString(value)]
                   [] key = "obfuscate_emails" ->
                        [fo EXCEPT !.obfuscate_emails = IsTrueString(value)]
                   [] key = "escape_html" ->
                        [fo EXCEPT !.escape_html = IsTrueString(value)]
                   [] key = "truncate" ->
                        [fo EXCEPT !.truncate = ParseUsize(value)]
                   [] OTHER -> fo
         IN  extract_formatting_options(Tail(opts), next)

\* the chat id resolved with a placeholder instead of "" when none is given
ResolveChatId_placeholder(opts, cfg) ==
    LET o == FindOption(opts, "chat_id")
    IN  IF IsSome(o) THEN Unwrap(o)
        ELSE IF IsSome(cfg.chat_id) THEN Unwrap(cfg.chat_id) ELSE "0"

\* the chat id of client.rs:71-85: the first chat_id option, else the
\* configured one, else ""
ResolveChatId(opts, cfg) ==
    LET o == FindOption(opts, "chat_id")
    IN  IF IsSome(o) THEN Unwrap(o)
        ELSE IF IsSome(cfg.chat_id) THEN Unwrap(cfg.chat_id) ELSE ""

\* the parse mode of client.rs:107-111: the option, or else the default
ResolveParseMode(opts, cfg) ==
    LET o == FindOption(opts, "parse_mode")
    IN  IF IsSome(o) THEN o ELSE cfg.default_parse_mode

\* client.rs:113-119: a parse mode that is none of the known ones becomes None
ValidateParseMode(pm) ==
    IF IsSome(pm) /\ Unwrap(pm) # "MarkdownV2" /\ Unwrap(pm) # "HTML" /\ Unwrap(pm) # ""
    THEN None ELSE pm

\* client.rs:122-126
ResolvePreview(opts, cfg) ==
    LET o == FindOption(opts, "disable_web_page_preview")
    IN  IF IsSome(o) THEN IsTrueString(Unwrap(o)) ELSE cfg.disable_web_page_preview

\* the dialect of the formatting pass `match parse_mode` selects (client.rs:132-163)
DialectOf(pm) ==
    IF pm = Some("MarkdownV2") THEN "MarkupV2"
    ELSE IF pm = Some("HTML") THEN "HTML"
    ELSE "PlainText"

\* the FormattingOptions send_message builds for a dialect
\* (client.rs:135-160, 202-207, 223-228, 246-251)
DialectOptions(dialect, fo) ==
    [ escape_markdown |-> dialect = "MarkupV2",
      escape_html |-> dialect = "HTML",
      obfuscate_emails |-> fo.obfuscate_emails,
      truncate |-> fo.truncate ]

\* the emptiness check left out
IsEmptyMessage_never(text) == FALSE

\* formatted_message.is_empty() (client.rs:168)
IsEmptyMessage(text) == text = <<>>

\* effective_parse_mode that passes None on, so that serde skips the key
EffectiveParseMode_none_kept(pm) ==
    IF IsSome(pm) /\ Unwrap(pm) # "MarkdownV2" /\ Unwrap(pm) # "HTML" THEN Some("")
    ELSE pm

\* effective_parse_mode (client.rs:288-293)
EffectiveParseMode(pm) ==
    IF IsSome(pm) /\ Unwrap(pm) = "" THEN Some("")
    ELSE IF IsSome(pm) /\ Unwrap(pm) # "MarkdownV2" /\ Unwrap(pm) # "HTML" THEN Some("")
    ELSE IF pm = None THEN Some("")
    ELSE pm

\* SendMessageParams as serialized: a field that is None is skipped, so
\* None stands for a key absent from the JSON body (client.rs:28-40, 296-301)
RequestBody(chat_id, text, pm, preview) ==
    [ chat_id |-> chat_id, text |-> text,
      parse_mode |-> EffectiveParseMode(pm),
      disable_web_page_preview |-> Some(preview) ]

\* what the endpoint may answer to one POST
Responses ==
    { [ success |-> TRUE, code |-> "200", text |-> <<>>,
        json |-> Some([ok |-> TRUE, description |-> None]) ],
      [ success |-> FALSE, code |-> "400",
        text |-> <<"Bad", "Request:", "unsupported", "parse_mode">>, json |-> None ],
      [ success |-> FALSE, code |-> "400",
        text |-> <<"Bad", "Request:", "can't", "parse", "entities">>, json |-> None ],
      [ success |-> TRUE, code |-> "200", text |-> <<>>,
        json |-> Some([ok |-> FALSE,
                       description |-> Some(<<"invalid", "parse_mode">>)]) ],
      [ success |-> TRUE, code |-> "200", text |-> <<>>,
        json |-> Some([ok |-> FALSE, description |-> None]) ],
      [ success |-> TRUE, code |-> "200", text |-> <<"garbage">>, json |-> None ] }

\* Error::Http(e): the request did not reach the endpoint or timed out
HttpError == [kind |-> "Http", desc |-> <<"error", "sending", "request">>]

\* Client::handle_response
handle_response(resp) ==
    IF ~resp.success
    THEN [kind |-> "Api",
          desc |-> <<"HTTP", "error", "(status", resp.code, "):">> \o resp.text]
    ELSE IF resp.json = None
    THEN [kind |-> "Api",
          desc |-> <<"Failed", "to", "parse", "API", "response:", "expected", "value">>]
    ELSE IF ~Unwrap(resp.json).ok
    THEN [kind |-> "Api",
          desc |-> IF IsSome(Unwrap(resp.json).description)
                   THEN Unwrap(Unwrap(resp.json).description)
                   ELSE <<"Unknown", "API", "error">>]
    ELSE [kind |-> "Ok", desc |-> <<>>]

\* Client::send_message_request once its body is built: the first POST,
\* whose response body is read and dropped, then the same POST again, whose
\* response is handled.  first = FALSE: the first POST failed in transport;
\* second = None: the second did.
RequestOutcome(first, second) ==
    IF ~first THEN [outcome |-> HttpError, posts |-> 1]
    ELSE IF second = None THEN [outcome |-> HttpError, posts |-> 2]
    ELSE [outcome |-> handle_response(Unwrap(second)), posts |-> 2]

\* should_try_plaintext that never sees a rejected mode
ShouldTryPlaintext_never(e) == FALSE

\* should_try_plaintext that also takes a transport error for a rejected mode
ShouldTryPlaintext_transport(e) ==
    IF e.kind = "Api" THEN \E k \in 1..Len(e.desc) : e.desc[k] = "parse_mode"
    ELSE e.kind = "Http"

\* should_try_plaintext (client.rs:192-195)
ShouldTryPlaintext(e) ==
    IF e.kind = "Api" THEN \E k \in 1..Len(e.desc) : e.desc[k] = "parse_mode"
    ELSE FALSE

\* the HTML fallback tried under every named parse mode
TryHtmlFallback_any_mode(pm) == IsSome(pm) /\ Unwrap(pm) # ""

\* the HTML fallback is tried for every primary but MarkdownV2
TryHtmlFallback_unless_markup(pm) == pm # Some("MarkdownV2")

\* the HTML fallback tried whatever the primary was
TryHtmlFallback_always(pm) == TRUE

\* the guard of the HTML fallback (client.rs:218)
TryHtmlFallback(pm) == pm = Some("MarkdownV2")

\* one call of send_message_request: the dialect its text was formatted
\* for, its arguments, the body it posts and what it returns
Submission(dialect, text, pm, cfg, first, second) ==
    [ dialect |-> dialect,
      bot_token |-> bot_token(cfg).value,
      text |-> text,
      parse_mode |-> pm,
      body |-> RequestBody(ResolveChatId(options, cfg), text, pm,
                           ResolvePreview(options, cfg)),
      outcome |-> RequestOutcome(first, second).outcome ]

-----------------------------------------------------------------------------
(* The caller: what it may pass, and the values its locals hold *)

\* the messages the caller sends
Messages ==
    { <<>>, <<"a">>, <<"<">>, <<"a", ".", "b">>, <<"a", " ", "*", "b", "*">> }

\* the option lists the caller passes
OptionLists ==
    { <<>>,
      << <<"parse_mode", "HTML">> >>,
      << <<"parse_mode", "">> >>,
      << <<"parse_mode", "Markdown">> >>,
      << <<"parse_mode", "MarkdownV2">>, <<"truncate", "2">> >>,
      << <<"chat_id", "C2">> >>,
      << <<"chat_id", "C2">>, <<"parse_mode", "HTML">>, <<"truncate", "5">> >>,
      << <<"chat_id", "">>, <<"parse_mode", "MarkdownV2">> >> }

\* the values the caller's closures hand to set_default_parse_mode
ParseModeValues == { "MarkdownV2", "HTML", "", "Markdown" }

\* ... to set_message_prefix and set_message_suffix
AffixValues == { <<>>, <<">">> }

\* ... and to set_formatting_options
FormattingOptionValues ==
    { [ escape_markdown |-> TRUE, obfuscate_emails |-> TRUE,
        escape_html |-> FALSE, truncate |-> Some(2) ],
      [ escape_markdown |-> FALSE, obfuscate_emails |-> FALSE,
        escape_html |-> FALSE, truncate |-> None ] }

\* the concurrent threads
Threads == 1..NThreads

\* a thread that runs no operation
IdleThread ==
    [ pc |-> "idle", site |-> "", config |-> None, fconfig |-> None,
      contended |-> FALSE, mutator |-> <<>>, next |-> 1, prev |-> None,
      temp |-> None, runs |-> 0, outcome |-> "", kept |-> FALSE ]

\* the mutex is free and no thread runs an operation
NoThreads ==
    /\ lock = 0
    /\ threads = [t \in Threads |-> IdleThread]
    /\ started = 0

\* the locals of send_message before the call
NoCall ==
    /\ message = <<>>
    /\ options = <<>>
    /\ snapshot = None
    /\ fmtopts = None
    /\ mode = None
    /\ pending = <<>>
    /\ subs = <<>>
    /\ posts = 0
    /\ errlog = <<>>
    /\ result = None

Init ==
    /\ config = DefaultConfiguration
    /\ nconf = 0
    /\ pc = "idle"
    /\ NoCall
    /\ NoThreads
    /\ tin = <<>>
    /\ tout = <<>>

-----------------------------------------------------------------------------
(* Telegrama::configure(|c| c.set_...(v)): Configuration::get_instance_mut  *)
(* takes the free lock and runs the closure on the stored value             *)

Configured(cfg) ==
    /\ pc = "idle"
    /\ nconf < MaxConfigure
    /\ config' = cfg
    /\ nconf' = nconf + 1
    /\ UNCHANGED <<callvars, tin, tout, concvars>>

SetBotToken == Configured([config EXCEPT !.bot_token = Some("T")])

SetChatId == Configured([config EXCEPT !.chat_id = Some("C")])

SetDefaultParseMode ==
    \E v \in ParseModeValues :
        Configured([config EXCEPT !.default_parse_mode = NoneIfEmpty(v, "")])

SetDisableWebPagePreview ==
    Configured([config EXCEPT !.disable_web_page_preview = FALSE])

SetMessagePrefix ==
    \E v \in AffixValues :
        Configured([config EXCEPT !.message_prefix = NoneIfEmpty(v, <<>>)])

SetMessageSuffix ==
    \E v \in AffixValues :
        Configured([config EXCEPT !.message_suffix = NoneIfEmpty(v, <<>>)])

SetFormattingOptions ==
    \E v \in FormattingOptionValues :
        Configured([config EXCEPT !.formatting_options = v])

-----------------------------------------------------------------------------
(* Client::send_message *)

\* a failing call returns the error of its first submission
Returns_first_error(r) ==
    /\ pc' = "done"
    /\ result' = Some(IF subs # <<>> /\ r.kind # "Ok" THEN subs[1].outcome ELSE r)

\* the call returns r
Returns(r) ==
    /\ pc' = "done"
    /\ result' = Some(r)

\* Telegrama::send_message(m, o) is entered
Call ==
    \E m \in Messages, o \in OptionLists :
        /\ pc = "idle"
        /\ pc' = "called"
        /\ message' = m
        /\ options' = o
        /\ UNCHANGED <<config, nconf, snapshot, fmtopts, mode, pending, subs,
                       posts, errlog, result, tin, tout, concvars>>

\* client.rs:62-126: the settings clone, validation, the required fields,
\* the formatting options and the parse mode
Resolve ==
    /\ pc = "called"
    /\ LET cfg == get_cloned_instance
           invalid == validate(cfg)
       IN  /\ snapshot' = Some(cfg)
           /\ IF IsSome(invalid)
              THEN Returns(Unwrap(invalid)) /\ UNCHANGED <<fmtopts, mode>>
              ELSE IF ResolveChatId(options, cfg) = ""
              THEN /\ Returns([kind |-> "Configuration",
                               desc |-> <<"Chat", "ID", "not", "provided">>])
                   /\ UNCHANGED <<fmtopts, mode>>
              ELSE /\ pc' = "resolved"
                   /\ fmtopts' = Some(extract_formatting_options(options,
                                          cfg.formatting_options))
                   /\ mode' = ValidateParseMode(ResolveParseMode(options, cfg))
                   /\ UNCHANGED result
    /\ UNCHANGED <<config, nconf, message, options, pending, subs, posts,
                   errlog, tin, tout, concvars>>

\* a fallback pass that formats the text of the tier before it
Formatted_pending(dialect, to) ==
    LET f == format(pending, DialectOptions(dialect, Unwrap(fmtopts)),
                    get_cloned_instance)
    IN  IF f.panic
        THEN pc' = "panicked" /\ UNCHANGED pending
        ELSE pc' = to /\ pending' = f.text

\* a formatting pass for a dialect, on the way to position `to`
Formatted(dialect, to) ==
    LET f == format(message, DialectOptions(dialect, Unwrap(fmtopts)),
                    get_cloned_instance)
    IN  IF f.panic
        THEN pc' = "panicked" /\ UNCHANGED pending
        ELSE pc' = to /\ pending' = f.text

\* client.rs:128-171: the formatting pass of the primary dialect
FormatPrimary ==
    /\ pc = "resolved"
    /\ LET f == format(message, DialectOptions(DialectOf(mode), Unwrap(fmtopts)),
                       get_cloned_instance)
       IN  IF f.panic
           THEN pc' = "panicked" /\ UNCHANGED <<pending, result>>
           ELSE IF IsEmptyMessage(f.text)
           THEN /\ Returns([kind |-> "Formatting",
                            desc |-> <<"Message", "is", "empty", "after", "formatting">>])
                /\ UNCHANGED pending
           ELSE pc' = "send_primary" /\ pending' = f.text /\ UNCHANGED result
    /\ UNCHANGED <<config, nconf, message, options, snapshot, fmtopts, mode,
                   subs, posts, errlog, tin, tout, concvars>>

\* a call of send_message_request with parse mode pm, whose Ok is
\* returned and whose Err is returned (failed = "done") or logged on the
\* way to position `failed`
Sent(dialect, pm, failed) ==
    \E first \in BOOLEAN, second \in {None} \cup { Some(r) : r \in Responses } :
        LET sub == Submission(dialect, pending, pm, Unwrap(snapshot), first, second)
        IN  /\ subs' = Append(subs, sub)
            /\ posts' = posts + RequestOutcome(first, second).posts
            /\ IF sub.outcome.kind = "Ok" \/ failed = "done"
               THEN Returns(sub.outcome) /\ UNCHANGED errlog
               ELSE /\ pc' = failed
                    /\ errlog' = Append(errlog, sub.outcome)
                    /\ UNCHANGED result

\* client.rs:173-195: the primary submission
SendPrimary ==
    /\ pc = "send_primary"
    /\ Sent(DialectOf(mode), mode, "failed_primary")
    /\ UNCHANGED <<config, nconf, message, options, snapshot, fmtopts, mode,
                   pending, tin, tout, concvars>>

\* client.rs:197-209: the mode itself was rejected, format as plain text
FallbackPlain ==
    /\ pc = "failed_primary"
    /\ ShouldTryPlaintext(subs[1].outcome)
    /\ Formatted("PlainText", "send_plain")
    /\ UNCHANGED <<config, nconf, message, options, snapshot, fmtopts, mode,
                   subs, posts, errlog, result, tin, tout, concvars>>

\* client.rs:211-217: the plain-text submission, whose outcome is returned
SendPlain ==
    /\ pc = "send_plain"
    /\ Sent("PlainText", None, "done")
    /\ UNCHANGED <<config, nconf, message, options, snapshot, fmtopts, mode,
                   pending, tin, tout, concvars>>

\* client.rs:218-230: another failure under MarkdownV2, format as HTML
FallbackHtml ==
    /\ pc = "failed_primary"
    /\ ~ShouldTryPlaintext(subs[1].outcome)
    /\ TryHtmlFallback(mode)
    /\ Formatted("HTML", "send_html")
    /\ UNCHANGED <<config, nconf, message, options, snapshot, fmtopts, mode,
                   subs, posts, errlog, result, tin, tout, concvars>>

\* client.rs:232-243: the HTML submission
SendHtml ==
    /\ pc = "send_html"
    /\ Sent("HTML", Some("HTML"), "failed_html")
    /\ UNCHANGED <<config, nconf, message, options, snapshot, fmtopts, mode,
                   pending, tin, tout, concvars>>

\* client.rs:245-254: HTML failed too, format as plain text
FallbackHtmlPlain ==
    /\ pc = "failed_html"
    /\ Formatted("PlainText", "send_html_plain")
    /\ UNCHANGED <<config, nconf, message, options, snapshot, fmtopts, mode,
                   subs, posts, errlog, result, tin, tout, concvars>>

\* client.rs:256-262: the final plain-text submission, whose outcome is returned
SendHtmlPlain ==
    /\ pc = "send_html_plain"
    /\ Sent("PlainText", None, "done")
    /\ UNCHANGED <<config, nconf, message, options, snapshot, fmtopts, mode,
                   pending, tin, tout, concvars>>

\* client.rs:265-268: no fallback applies, the original error is returned
Propagate ==
    /\ pc = "failed_primary"
    /\ ~ShouldTryPlaintext(subs[1].outcome)
    /\ ~TryHtmlFallback(mode)
    /\ Returns(subs[1].outcome)
    /\ UNCHANGED <<config, nconf, message, options, snapshot, fmtopts, mode,
                   pending, subs, posts, errlog, tin, tout, concvars>>

\* the caller has its result and is ready for the next call
Return ==
    /\ pc = "done"
    /\ pc' = "idle"
    /\ message' = <<>>
    /\ options' = <<>>
    /\ snapshot' = None
    /\ fmtopts' = None
    /\ mode' = None
    /\ pending' = <<>>
    /\ subs' = <<>>
    /\ posts' = 0
    /\ errlog' = <<>>
    /\ result' = None
    /\ UNCHANGED <<config, nconf, tin, tout, concvars>>

Next ==
    \/ SetBotToken
    \/ SetChatId
    \/ SetDefaultParseMode
    \/ SetDisableWebPagePreview
    \/ SetMessagePrefix
    \/ SetMessageSuffix
    \/ SetFormattingOptions
    \/ Call
    \/ Resolve
    \/ FormatPrimary
    \/ SendPrimary
    \/ FallbackPlain
    \/ SendPlain
    \/ FallbackHtml
    \/ SendHtml
    \/ FallbackHtmlPlain
    \/ SendHtmlPlain
    \/ Propagate
    \/ Return

Spec == Init /\ [][Next]_vars

\* a step of send_message between its entry and its return
CallStep ==
    \/ Resolve
    \/ FormatPrimary
    \/ SendPrimary
    \/ FallbackPlain
    \/ SendPlain
    \/ FallbackHtml
    \/ SendHtml
    \/ FallbackHtmlPlain
    \/ SendHtmlPlain
    \/ Propagate

\* the caller's thread runs on, and every transport request returns
SpecLive == Spec /\ WF_vars(CallStep)

-----------------------------------------------------------------------------
(* Formatter::escape_markdown_v2 on its own *)

\* the characters of the texts escaped under SpecEscape
EscapeAlphabet == { "a", ".", "*", "_", "!", Backtick, "[", "]", "(", ")" }

\* every text of at most n characters of alphabet A
TextsUpTo(A, n) == UNION { [1..k -> A] : k \in 0..n }

EscapeInit ==
    /\ config = DefaultConfiguration
    /\ nconf = 0
    /\ pc = "idle"
    /\ NoCall
    /\ NoThreads
    /\ tin \in TextsUpTo(EscapeAlphabet, MaxTextLen)
    /\ tout = <<>>

\* escape_markdown_v2 applied to the input, then to its own output
EscapeAgain ==
    /\ Len(tout) < 2
    /\ tout' = Append(tout, escape_markdown_v2(IF tout = <<>> THEN tin
                                                ELSE tout[Len(tout)]))
    /\ UNCHANGED <<config, nconf, callvars, tin, concvars>>

EscapeNext == EscapeAgain

SpecEscape == EscapeInit /\ [][EscapeNext]_vars

-----------------------------------------------------------------------------
(* The formatter's other functions on their own.  Each specification draws *)
(* its input tin from a bounded set and appends the function's results to  *)
(* tout.                                                                   *)

\* nothing of the client or of the settings moves
Quiescent ==
    /\ config = DefaultConfiguration
    /\ nconf = 0
    /\ pc = "idle"
    /\ NoCall
    /\ NoThreads

\* the function under study has produced r
Produced(r) ==
    /\ tout' = Append(tout, r)
    /\ UNCHANGED <<config, nconf, callvars, tin, concvars>>

(* Formatter::strip_markdown after Formatter::escape_markdown_v2 *)

\* ordinary characters and reserved characters that are no formatting marker
StripAlphabet == { "a", ".", "!", "-", "~", ">" }

StripInit ==
    /\ Quiescent
    /\ tin \in TextsUpTo(StripAlphabet, MaxTextLen)
    /\ tout = <<>>

\* escape_markdown_v2(tin)
StripEscape == tout = <<>> /\ Produced(escape_markdown_v2(tin))

\* strip_markdown(escape_markdown_v2(tin))
StripStrip == Len(tout) = 1 /\ Produced(strip_markdown(tout[1]))

StripNext == StripEscape \/ StripStrip

SpecStrip == StripInit /\ [][StripNext]_vars

(* Formatter::escape_markdown_v2 on a text holding one code span *)

\* what stands between the code delimiters: short texts, and link-shaped texts
CodeBodies ==
    TextsUpTo({ "a", ".", "*" }, MaxSpanLen)
        \cup { <<"[">> \o l \o <<"]", "(">> \o u \o <<")">> :
                  l \in { <<"a">>, <<".">> }, u \in { <<"a">>, <<"_">> } }

\* the single backtick and the triple backtick
CodeFences == { <<Backtick>>, <<Backtick, Backtick, Backtick>> }

\* the code span of input r, delimiters included
CodeSpan(r) == r.fence \o r.body \o r.fence

\* the text of input r
CodeText(r) == r.pre \o CodeSpan(r) \o r.post

CodeInit ==
    /\ Quiescent
    /\ tin \in [ pre : { <<>>, <<"a">> }, fence : CodeFences,
                 body : CodeBodies, post : { <<>>, <<".">> } ]
    /\ tout = <<>>

CodeEscape == tout = <<>> /\ Produced(escape_markdown_v2(CodeText(tin)))

CodeNext == CodeEscape

SpecCode == CodeInit /\ [][CodeNext]_vars

(* Formatter::escape_markdown_v2 on a code span whose body may hold a     *)
(* backtick                                                                *)

\* what stands between two delimiters and holds no terminator: no backtick
\* between single backticks, no backtick at either end between triple ones
FenceBodies(fence) ==
    { b \in TextsUpTo({ "a", ".", Backtick }, MaxFenceLen) :
         IF Len(fence) = 1 THEN \A k \in 1..Len(b) : b[k] # Backtick
         ELSE b = <<>> \/ (b[1] # Backtick /\ b[Len(b)] # Backtick) }

\* the code span of input r, delimiters included
FenceSpan(r) == r.fence \o r.body \o r.fence

\* the text of input r
FenceText(r) == FenceSpan(r) \o r.post

FenceInit ==
    /\ Quiescent
    /\ \E f \in CodeFences, b \in TextsUpTo({ "a", ".", Backtick }, MaxFenceLen),
          p \in { <<>>, <<".">>, <<"a", "!">> } :
          /\ b \in FenceBodies(f)
          /\ tin = [fence |-> f, body |-> b, post |-> p]
    /\ tout = <<>>

FenceEscape == tout = <<>> /\ Produced(escape_markdown_v2(FenceText(tin)))

FenceNext == FenceEscape

SpecFence == FenceInit /\ [][FenceNext]_vars

(* Formatter::escape_markdown_v2 on a text holding one complete link *)

\* link labels: no ']'
LinkLabels == TextsUpTo({ "a", ".", "*", Backtick }, MaxSpanLen) \ { <<>> }

\* link targets: no ')'
LinkTargets == TextsUpTo({ "a", ".", "_", "[" }, MaxSpanLen) \ { <<>> }

\* the text of input r
LinkText(r) ==
    r.pre \o <<"[">> \o r.label \o <<"]", "(">> \o r.target \o <<")">> \o r.post

LinkInit ==
    /\ Quiescent
    /\ tin \in [ pre : { <<>>, <<"a">>, <<"*">> }, label : LinkLabels,
                 target : LinkTargets, post : { <<>>, <<".">> } ]
    /\ tout = <<>>

LinkEscape == tout = <<>> /\ Produced(escape_markdown_v2(LinkText(tin)))

LinkNext == LinkEscape

SpecLink == LinkInit /\ [][LinkNext]_vars

(* Formatter::truncate *)

TruncInit ==
    /\ Quiescent
    /\ tin \in [ text : TextsUpTo({ "a", " " }, MaxTruncLen),
                 limit : 0..MaxTruncLen ]
    /\ tout = <<>>

Truncate == tout = <<>> /\ Produced(truncate(tin.text, tin.limit))

TruncNext == Truncate

SpecTruncate == TruncInit /\ [][TruncNext]_vars

(* Formatter::obfuscate_emails on a text holding one address *)

\* local parts: they start with a letter
EmailLocals ==
    { l \in TextsUpTo({ "a", "." }, MaxLocalLen) : l # <<>> /\ l[1] = "a" }

EmailDomains == { <<"e", ".", "f", "g">>, <<"e", "-", "f", ".", "g", "h">> }

\* the address of input r
EmailAddress(r) == r.local \o <<"@">> \o r.domain

\* the text of input r
EmailText(r) == r.pre \o EmailAddress(r) \o r.post

EmailInit ==
    /\ Quiescent
    /\ tin \in [ pre : { <<>>, <<"<">>, <<"b", " ">> }, local : EmailLocals,
                 domain : EmailDomains, post : { <<>>, <<" ", "c">> } ]
    /\ tout = <<>>

Obfuscate == tout = <<>> /\ Produced(obfuscate_emails(EmailText(tin)))

EmailNext == Obfuscate

SpecObfuscate == EmailInit /\ [][EmailNext]_vars

(* Formatter::format on its own, under stored prefixes and suffixes *)

\* the prefixes and suffixes stored in the settings
FormatAffixes == { None, Some(<<".">>), Some(<<"<", "a">>) }

\* the input r as the FormattingOptions send_message hands to format
FormatOptions(r) ==
    DialectOptions(r.dialect, [obfuscate_emails |-> FALSE, truncate |-> r.limit])

FormatInit ==
    /\ \E p \in FormatAffixes, s \in FormatAffixes :
           config = [DefaultConfiguration EXCEPT !.message_prefix = p,
                                                 !.message_suffix = s]
    /\ nconf = 0
    /\ pc = "idle"
    /\ NoCall
    /\ NoThreads
    /\ tin \in [ text : TextsUpTo({ "a", ".", "<", " " }, MaxFormatLen),
                 dialect : { "MarkupV2", "HTML", "PlainText" },
                 limit : { None } \cup { Some(n) : n \in 0..MaxCutLen } ]
    /\ tout = <<>>

\* Formatter::format(text, Some(options))
FormatOnce ==
    /\ tout = <<>>
    /\ Produced(format(tin.text, FormatOptions(tin), get_cloned_instance))

FormatNext == FormatOnce

SpecFormat == FormatInit /\ [][FormatNext]_vars

-----------------------------------------------------------------------------
(* Concurrent threads.  Each thread calls Telegrama::send_message or       *)
(* Telegrama::configure; every Mutex::try_lock, and every release of the   *)
(* guard, is a step of its own.  A send_message call is followed up to its *)
(* first formatting pass and its first transport request; the fallback     *)
(* cascade is that of Spec.                                                *)

\* Mutex::try_lock returns Ok when no thread holds the mutex
TryLock_always == TRUE

TryLock == lock = 0

\* the holder of the mutex once get_cloned_instance's `let result = match
\* instance.try_lock() { .. };` has ended: the guard, a temporary of that
\* statement, is dropped with it
LockAfterClone_kept(t) == t

LockAfterClone(t) == 0

\* the closures the writers hand to configure, as the setters they call
Mutators ==
    { << [field |-> "bot_token", value |-> "T"],
         [field |-> "chat_id", value |-> "C"] >>,
      << [field |-> "message_prefix", value |-> <<">">>] >>,
      << [field |-> "default_parse_mode", value |-> ""],
         [field |-> "message_suffix", value |-> <<>>] >> }

\* one setter called on cfg
ApplySetter(cfg, s) ==
    CASE s.field = "bot_token" -> [cfg EXCEPT !.bot_token = Some(s.value)]
      [] s.field = "chat_id" -> [cfg EXCEPT !.chat_id = Some(s.value)]
      [] s.field = "default_parse_mode" ->
            [cfg EXCEPT !.default_parse_mode = NoneIfEmpty(s.value, "")]
      [] s.field = "message_prefix" ->
            [cfg EXCEPT !.message_prefix = NoneIfEmpty(s.value, <<>>)]
      [] s.field = "message_suffix" ->
            [cfg EXCEPT !.message_suffix = NoneIfEmpty(s.value, <<>>)]

RECURSIVE ApplyAll(_, _)
\* the closure run on cfg
ApplyAll(cfg, mutator) ==
    IF mutator = <<>> THEN cfg
    ELSE ApplyAll(ApplySetter(cfg, Head(mutator)), Tail(mutator))

\* what get_instance_mut runs the closure on: the stored settings, through
\* the guard, or a temporary Configuration::default()
WriteTarget_temp(locked, stored) == DefaultConfiguration

WriteTarget(locked, stored) == IF locked THEN stored ELSE DefaultConfiguration

\* thread t moves to r; the sequential caller and the formatter stand still
Moves(t, r) ==
    /\ threads' = [threads EXCEPT ![t] = r]
    /\ UNCHANGED <<nconf, callvars, tin, tout>>

\* the stored settings hold a bot token and a chat id
Stored(cfg) == IsSome(cfg.bot_token) /\ IsSome(cfg.chat_id)

\* thread t moves to r in a step that leaves cfg in the stored settings.
\* The field `kept` of a thread in send_message records that a token and a
\* chat id were stored when its call started and at every moment since.
MovesWriting(t, r, cfg) ==
    /\ threads' = [u \in Threads |->
                      LET x == IF u = t THEN r ELSE threads[u]
                      IN  [x EXCEPT !.kept = x.kept /\ Stored(cfg)]]
    /\ UNCHANGED <<nconf, callvars, tin, tout>>

\* where a thread goes on after get_cloned_instance has returned
AfterRead(site) == IF site = "client" THEN "validate" ELSE "formatting"

\* the clone returned to the site that asked for it
WithClone(r, cfg) ==
    IF r.site = "client" THEN [r EXCEPT !.config = Some(cfg)]
    ELSE [r EXCEPT !.fconfig = Some(cfg)]

\* thread t enters Telegrama::send_message
ConcSend(t) ==
    /\ threads[t].pc = "idle"
    /\ started < MaxOps
    /\ started' = started + 1
    /\ Moves(t, [threads[t] EXCEPT !.pc = "read", !.site = "client",
                                    !.kept = Stored(config) /\ lock = 0])
    /\ UNCHANGED <<config, lock>>

\* get_cloned_instance: instance.try_lock(); on Err the result is
\* Configuration::default()
ReadTry(t) ==
    /\ threads[t].pc = "read"
    /\ IF TryLock
       THEN /\ lock' = t
            /\ Moves(t, [threads[t] EXCEPT !.pc = "cloning"])
       ELSE /\ lock' = lock
            /\ Moves(t, [WithClone(threads[t], DefaultConfiguration)
                            EXCEPT !.contended = TRUE,
                                   !.pc = AfterRead(threads[t].site)])
    /\ UNCHANGED <<config, started>>

\* get_cloned_instance: config.clone() under the guard, and the drop of the guard
ReadClone(t) ==
    /\ threads[t].pc = "cloning"
    /\ lock' = LockAfterClone(t)
    /\ Moves(t, [WithClone(threads[t], config)
                    EXCEPT !.pc = AfterRead(threads[t].site)])
    /\ UNCHANGED <<config, started>>

\* client.rs:65-89: validate, bot_token, chat id; then Formatter::format
\* asks for its own clone
Validate(t) ==
    /\ threads[t].pc = "validate"
    /\ LET cfg == Unwrap(threads[t].config)
       IN  IF IsSome(validate(cfg)) \/ ResolveChatId(<<>>, cfg) = ""
           THEN Moves(t, [threads[t] EXCEPT !.pc = "returned",
                                            !.outcome = "Configuration"])
           ELSE Moves(t, [threads[t] EXCEPT !.pc = "read", !.site = "format"])
    /\ UNCHANGED <<config, lock, started>>

\* the formatting pass of Formatter::format, after it has its clone
FormatPass(t) ==
    /\ threads[t].pc = "formatting"
    /\ Moves(t, [threads[t] EXCEPT !.pc = "sending"])
    /\ UNCHANGED <<config, lock, started>>

\* the transport request of send_message_request
Transport(t) ==
    /\ threads[t].pc = "sending"
    /\ \E o \in {"Ok", "Api"} :
          Moves(t, [threads[t] EXCEPT !.pc = "returned", !.outcome = o])
    /\ UNCHANGED <<config, lock, started>>

\* thread t enters Telegrama::configure with one of the closures
ConcConfigure(t) ==
    /\ threads[t].pc = "idle"
    /\ started < MaxOps
    /\ started' = started + 1
    /\ \E m \in Mutators :
          Moves(t, [threads[t] EXCEPT !.pc = "w_try", !.mutator = m])
    /\ UNCHANGED <<config, lock>>

\* get_instance_mut: the first try_lock; on Ok the closure starts on the
\* stored settings, on Err a temporary Configuration::default() is made
WriteTry(t) ==
    /\ threads[t].pc = "w_try"
    /\ IF TryLock
       THEN /\ lock' = t
            /\ config' = WriteTarget(TRUE, config)
            /\ MovesWriting(t, [threads[t] EXCEPT !.pc = "w_inplace",
                                                  !.prev = Some(config),
                                                  !.runs = threads[t].runs + 1],
                            WriteTarget(TRUE, config))
       ELSE /\ UNCHANGED <<lock, config>>
            /\ Moves(t, [threads[t] EXCEPT
                            !.pc = "w_temp",
                            !.temp = Some(WriteTarget(FALSE, config))])
    /\ UNCHANGED started

\* the closure's next setter, on the stored settings
WriteInPlace(t) ==
    /\ threads[t].pc = "w_inplace"
    /\ threads[t].next <= Len(threads[t].mutator)
    /\ config' = ApplySetter(config, threads[t].mutator[threads[t].next])
    /\ MovesWriting(t, [threads[t] EXCEPT !.next = threads[t].next + 1],
                    ApplySetter(config, threads[t].mutator[threads[t].next]))
    /\ UNCHANGED <<lock, started>>

\* the closure has returned: `return` drops the guard
WriteUnlock(t) ==
    /\ threads[t].pc = "w_inplace"
    /\ threads[t].next > Len(threads[t].mutator)
    /\ lock' = 0
    /\ Moves(t, [threads[t] EXCEPT !.pc = "returned"])
    /\ UNCHANGED <<config, started>>

\* the closure run on the temporary
WriteTemp(t) ==
    /\ threads[t].pc = "w_temp"
    /\ Moves(t, [threads[t] EXCEPT
                    !.pc = "w_retry",
                    !.temp = Some(ApplyAll(Unwrap(threads[t].temp),
                                           threads[t].mutator)),
                    !.runs = threads[t].runs + 1])
    /\ UNCHANGED <<config, lock, started>>

\* get_instance_mut: the second try_lock; on Err the temporary is dropped
WriteRetry(t) ==
    /\ threads[t].pc = "w_retry"
    /\ IF TryLock
       THEN lock' = t /\ Moves(t, [threads[t] EXCEPT !.pc = "w_overwrite"])
       ELSE lock' = lock /\ Moves(t, [threads[t] EXCEPT !.pc = "returned"])
    /\ UNCHANGED <<config, started>>

\* `*config = temp_config;` and the drop of the guard
WriteOverwrite(t) ==
    /\ threads[t].pc = "w_overwrite"
    /\ config' = Unwrap(threads[t].temp)
    /\ lock' = 0
    /\ MovesWriting(t, [threads[t] EXCEPT !.pc = "returned"],
                    Unwrap(threads[t].temp))
    /\ UNCHANGED started

\* the operation of thread t has returned to its caller
ConcReturn(t) ==
    /\ threads[t].pc = "returned"
    /\ Moves(t, IdleThread)
    /\ UNCHANGED <<config, lock, started>>

ConcNext ==
    \E t \in Threads :
        \/ ConcSend(t)
        \/ ReadTry(t)
        \/ ReadClone(t)
        \/ Validate(t)
        \/ FormatPass(t)
        \/ Transport(t)
        \/ ConcConfigure(t)
        \/ WriteTry(t)
        \/ WriteInPlace(t)
        \/ WriteUnlock(t)
        \/ WriteTemp(t)
        \/ WriteRetry(t)
        \/ WriteOverwrite(t)
        \/ ConcReturn(t)

SpecConc == Init /\ [][ConcNext]_vars

-----------------------------------------------------------------------------
(* Vocabulary of the properties *)

\* the words of a description
Words(desc) == { desc[k] : k \in 1..Len(desc) }

\* a failure of a submission
IsFailure(o) == o.kind # "Ok"

\* a remote rejection whose description mentions the mode parameter
IsDialectRejection(o) == o.kind = "Api" /\ "parse_mode" \in Words(o.desc)

\* a failure that is not such a rejection
IsOtherFailure(o) == IsFailure(o) /\ ~IsDialectRejection(o)

\* the request did not reach the endpoint or timed out
IsTransportFailure(o) == o.kind = "Http"

\* the wire token of a dialect
WireToken(dialect) ==
    CASE dialect = "MarkupV2" -> "MarkdownV2"
      [] dialect = "HTML" -> "HTML"
      [] dialect = "PlainText" -> ""

\* the parse mode names the endpoint knows
KnownModes == { "MarkdownV2", "HTML", "" }

\* needle occurs in hay as a run of consecutive words
ContainsText(hay, needle) ==
    \E k \in 0..Len(hay) :
        /\ k + Len(needle) <= Len(hay)
        /\ \A j \in 1..Len(needle) : hay[k + j] = needle[j]

\* send_message has taken its settings clone and decided on it
Resolved == pc \notin {"idle", "called"} /\ IsSome(snapshot)

\* the text of the caller's message formatted afresh for a dialect
Fresh(dialect) ==
    format(message, DialectOptions(dialect, Unwrap(fmtopts)), Unwrap(snapshot)).text

\* submission i is the dialect's tier: its text is formatted for the
\* dialect and its body names the dialect's wire token
IsTier(i, dialect) ==
    /\ subs[i].dialect = dialect
    /\ subs[i].text = Fresh(dialect)
    /\ subs[i].body.text = Fresh(dialect)
    /\ subs[i].body.parse_mode = Some(WireToken(dialect))

-----------------------------------------------------------------------------
(* C1 *)

\* C1: whatever the initial dialect, once the first submission has failed
\* with a remote rejection whose description contains "parse_mode", the call
\* makes one more submission and only one, under PlainText, and returns what
\* that second submission returned, success or failure.
C1_DialectRejectionOnePlainRetry ==
    (Len(subs) >= 1 /\ IsDialectRejection(subs[1].outcome)) =>
        /\ pc \in {"failed_primary", "send_plain", "done"}
        /\ Len(subs) <= 2
        /\ pc \in {"failed_primary", "send_plain"} => Len(subs) = 1
        /\ Len(subs) = 2 => IsTier(2, "PlainText")
        /\ pc = "done" => Len(subs) = 2 /\ result = Some(subs[2].outcome)

\* an HTML call whose mode was rejected and whose plain-text retry failed too
C1_Witness ==
    /\ pc = "done"
    /\ Len(subs) = 2
    /\ subs[1].dialect = "HTML"
    /\ IsDialectRejection(subs[1].outcome)
    /\ IsFailure(subs[2].outcome)
    /\ result = Some(subs[2].outcome)

-----------------------------------------------------------------------------
(* C2 *)

\* C2: once the first submission of a MarkupV2 call has failed with a
\* failure that is not a rejection of the mode, the call submits under HTML
\* next; an HTML success is returned and nothing is submitted under
\* PlainText; an HTML failure of any kind is followed by the PlainText
\* submission, whose outcome is returned.
C2_MarkupFailureCascades ==
    (/\ Len(subs) >= 1
     /\ subs[1].dialect = "MarkupV2"
     /\ IsOtherFailure(subs[1].outcome)) =>
        /\ pc \in {"failed_primary", "send_html", "failed_html",
                   "send_html_plain", "done"}
        /\ Len(subs) >= 2 => IsTier(2, "HTML")
        /\ (Len(subs) >= 2 /\ ~IsFailure(subs[2].outcome)) =>
               /\ Len(subs) = 2
               /\ pc = "done"
               /\ result = Some(subs[2].outcome)
        /\ Len(subs) >= 3 =>
               /\ IsFailure(subs[2].outcome)
               /\ IsTier(3, "PlainText")
               /\ Len(subs) = 3
               /\ pc = "done"
               /\ result = Some(subs[3].outcome)
        /\ pc = "done" => Len(subs) >= 2

\* what does hold of the cascade: the same, except that the formatting
\* pass of a fallback tier may panic instead of reaching its submission
C2_CascadeUnlessPanic ==
    (/\ Len(subs) >= 1
     /\ subs[1].dialect = "MarkupV2"
     /\ IsOtherFailure(subs[1].outcome)) =>
        /\ pc \in {"failed_primary", "send_html", "failed_html",
                   "send_html_plain", "done", "panicked"}
        /\ Len(subs) >= 2 => IsTier(2, "HTML")
        /\ (Len(subs) >= 2 /\ ~IsFailure(subs[2].outcome)) =>
               /\ Len(subs) = 2
               /\ pc = "done"
               /\ result = Some(subs[2].outcome)
        /\ Len(subs) >= 3 =>
               /\ IsFailure(subs[2].outcome)
               /\ IsTier(3, "PlainText")
               /\ Len(subs) = 3
               /\ pc = "done"
               /\ result = Some(subs[3].outcome)
        /\ pc = "done" => Len(subs) >= 2

-----------------------------------------------------------------------------
(* C3 *)

\* C3: once the first submission of an HTML or PlainText call has failed
\* with a failure that is not a rejection of the mode, the call makes no
\* further submission and returns exactly that failure.
C3_OtherFailurePropagates ==
    (/\ Len(subs) >= 1
     /\ subs[1].dialect \in {"HTML", "PlainText"}
     /\ IsOtherFailure(subs[1].outcome)) =>
        /\ Len(subs) = 1
        /\ pc \in {"failed_primary", "done"}
        /\ pc = "done" => result = Some(subs[1].outcome)

\* an HTML call that returned the remote rejection of its only submission
C3_Witness ==
    /\ pc = "done"
    /\ Len(subs) = 1
    /\ subs[1].dialect = "HTML"
    /\ subs[1].outcome.kind = "Api"
    /\ IsOtherFailure(subs[1].outcome)
    /\ result = Some(subs[1].outcome)

-----------------------------------------------------------------------------
(* C4 *)

-----------------------------------------------------------------------------
(* C5 *)

\* C5: when the call ends in failure after one or more fallback
\* submissions, the error it returns carries the description of the first
\* failure.
C5_ReturnedErrorCarriesFirstDescription ==
    (pc = "done" /\ Len(subs) >= 2 /\ IsFailure(Unwrap(result))) =>
        ContainsText(Unwrap(result).desc, subs[1].outcome.desc)

\* C5 as amended: when the call ends after one or more fallback
\* submissions, what it returns is the outcome of the last submission made,
\* and nothing else; the failures of the earlier submissions, the first
\* one included, are logged in their order before each fallback and are
\* not part of the returned value.
C5_ReturnedErrorIsLastSubmissions ==
    (pc = "done" /\ Len(subs) >= 2) =>
        /\ result = Some(subs[Len(subs)].outcome)
        /\ errlog = [k \in 1..(Len(subs) - 1) |-> subs[k].outcome]

\* a call that went through the three tiers and returned a failure whose
\* description is not that of the first one
C5_Witness ==
    /\ pc = "done"
    /\ Len(subs) = 3
    /\ IsFailure(Unwrap(result))
    /\ subs[1].outcome.kind = "Api"
    /\ ~ContainsText(Unwrap(result).desc, subs[1].outcome.desc)
    /\ errlog[1] = subs[1].outcome

-----------------------------------------------------------------------------
(* C6 *)

\* the settings clone holds no bot token
TokenAbsent == Unwrap(snapshot).bot_token = None

\* neither the options nor the settings clone hold a chat identifier
ChatAbsent ==
    /\ \A k \in 1..Len(options) : options[k][1] # "chat_id"
    /\ Unwrap(snapshot).chat_id = None

\* C6: if the settings clone holds no bot token, or neither the options nor
\* the clone hold a chat identifier, the call returns a Configuration error
\* and has issued no transport request, on any tier.
C6_MissingFieldsFailFast ==
    (Resolved /\ (TokenAbsent \/ ChatAbsent)) =>
        /\ pc = "done"
        /\ Unwrap(result).kind = "Configuration"
        /\ subs = <<>>
        /\ posts = 0

\* a call with a token and no chat identifier anywhere
C6_Witness ==
    /\ Resolved
    /\ ~TokenAbsent
    /\ ChatAbsent
    /\ pc = "done"
    /\ Unwrap(result).kind = "Configuration"
    /\ posts = 0

-----------------------------------------------------------------------------
(* C7 *)

\* the parse_mode option of the call, None when it has none
ModeOverride ==
    IF \E k \in 1..Len(options) : options[k][1] = "parse_mode"
    THEN Some(options[CHOOSE k \in 1..Len(options) :
                        /\ options[k][1] = "parse_mode"
                        /\ \A j \in 1..(k - 1) : options[j][1] # "parse_mode"][2])
    ELSE None

\* the stored default parse mode
ModeDefault == Unwrap(snapshot).default_parse_mode

\* the dialect resolved from the override, else from the default, is none
\* of the known ones
ResolvedModeUnknown ==
    LET r == IF IsSome(ModeOverride) THEN ModeOverride ELSE ModeDefault
    IN  IsSome(r) /\ Unwrap(r) \notin KnownModes

\* the call has its required fields
FieldsPresent == ~TokenAbsent /\ ~ChatAbsent /\ ~(Some("") = FindOption(options, "chat_id"))

-----------------------------------------------------------------------------
(* C8 *)

\* the formatting pass of the primary dialect has run and left no text
PrimaryTextEmpty ==
    /\ pc \notin {"idle", "called", "resolved"}
    /\ IsSome(fmtopts)
    /\ LET f == format(message, DialectOptions(DialectOf(mode), Unwrap(fmtopts)),
                       Unwrap(snapshot))
       IN  ~f.panic /\ f.text = <<>>

\* C8: if the text formatted for the initial dialect is empty, the call
\* returns a Formatting error, has issued no transport request and has
\* formatted nothing for another dialect.
C8_EmptyMessageFailsFast ==
    PrimaryTextEmpty =>
        /\ pc = "done"
        /\ Unwrap(result).kind = "Formatting"
        /\ subs = <<>>
        /\ posts = 0

\* an empty message sent with complete settings
C8_Witness ==
    /\ PrimaryTextEmpty
    /\ message = <<>>
    /\ pc = "done"
    /\ Unwrap(result).kind = "Formatting"

-----------------------------------------------------------------------------
(* C9 *)

\* C9: the body of every submission, primary or fallback, carries
\* parse_mode as a string: "MarkdownV2" under MarkupV2, "HTML" under HTML,
\* the empty string under PlainText; the key is never absent.
C9_ParseModeAlwaysAString ==
    \A i \in 1..Len(subs) :
        /\ subs[i].body.parse_mode # None
        /\ subs[i].body.parse_mode = Some(WireToken(subs[i].dialect))
        /\ Unwrap(subs[i].body.parse_mode) \in KnownModes

\* a call that went through the three tiers
C9_Witness ==
    /\ Len(subs) = 3
    /\ subs[1].body.parse_mode = Some("MarkdownV2")
    /\ subs[2].body.parse_mode = Some("HTML")
    /\ subs[3].body.parse_mode = Some("")

-----------------------------------------------------------------------------
(* C10 *)

\* C10: escaping the output of escape_markdown_v2 again puts no second
\* backslash in front of a reserved character: in escape(escape(x)) no
\* reserved character is preceded by two backslashes.
C10_NoDoubleEscape ==
    Len(tout) = 2 =>
        \A i \in 3..Len(tout[2]) :
            IsSpecial(tout[2][i]) =>
                ~(tout[2][i - 1] = "\\" /\ tout[2][i - 2] = "\\")

-----------------------------------------------------------------------------
(* C11 *)

\* t with one backslash put before each of its reserved characters
OneBackslashEach(t) ==
    ConcatMap([c \in {t[k] : k \in 1..Len(t)} |->
                  IF IsSpecial(c) THEN <<"\\", c>> ELSE <<c>>], t)

\* C11: for every text x of ordinary characters and reserved characters
\* that are no formatting marker, escape_markdown_v2(x) is x with exactly
\* one backslash before each reserved character, and
\* strip_markdown(escape_markdown_v2(x)) is x again.
C11_StripRecoversEscapedText ==
    /\ Len(tout) >= 1 => tout[1] = OneBackslashEach(tin)
    /\ Len(tout) = 2 => tout[2] = tin

\* the first half of C11 alone: one backslash before each reserved character
C11_OneBackslashEach == Len(tout) >= 1 => tout[1] = OneBackslashEach(tin)

-----------------------------------------------------------------------------
(* C12 *)

\* where the code span of the input stands in the output if nothing is
\* inserted into it (the text before it has no reserved character)
EmittedCodeSpan ==
    SubSeq(tout[1], Len(tin.pre) + 1, Len(tin.pre) + Len(CodeSpan(tin)))

\* C12: the characters between an opening code delimiter (one backtick or
\* three) and its terminator are emitted by escape_markdown_v2 exactly as
\* in the input, whatever reserved characters or link-shaped text they
\* hold.
C12_CodeSpanVerbatim == tout # <<>> => EmittedCodeSpan = CodeSpan(tin)

\* C12 for the code spans that hold no link-shaped text
C12_CodeSpanWithoutLinkVerbatim ==
    (tout # <<>> /\ pre_process_links(tin.body) = tin.body) =>
        EmittedCodeSpan = CodeSpan(tin)

-----------------------------------------------------------------------------
(* C13 *)

\* t with one backslash before each reserved character other than / : . -
OneBackslashEachInTarget(t) ==
    ConcatMap([c \in {t[k] : k \in 1..Len(t)} |->
                  IF IsSpecial(c) /\ c \notin {"/", ":", ".", "-"}
                  THEN <<"\\", c>> ELSE <<c>>], t)

\* the link span as it has to be emitted
ExpectedLinkSpan ==
    <<"[">> \o OneBackslashEach(tin.label) \o <<"]", "(">>
        \o OneBackslashEachInTarget(tin.target) \o <<")">>

\* C13: for a complete link span [label](target) outside code,
\* escape_markdown_v2 emits [ ] ( ) unescaped, the label with exactly one
\* backslash before each reserved character, the target with exactly one
\* backslash before each reserved character other than / : . - , and
\* nothing more inside the span.
C13_LinkSpanEscapedOnce ==
    tout # <<>> =>
        SubSeq(tout[1], Len(tin.pre) + 1, Len(tin.pre) + Len(ExpectedLinkSpan))
            = ExpectedLinkSpan

\* a link in bold context whose label and target hold reserved characters
C13_Witness ==
    /\ tout # <<>>
    /\ tin.pre = <<"*">>
    /\ tin.label = <<".", "*">>
    /\ tin.target = <<".", "_">>
    /\ tout[1] = <<"*", "[", "\\", ".", "\\", "*", "]", "(", ".", "\\", "_", ")">>
                    \o tin.post

-----------------------------------------------------------------------------
(* C14 *)

\* C14: for every text and every limit truncate returns a text no longer
\* than the limit: the text itself when it fits, and otherwise a cut text
\* whose ellipsis does not push it over the limit, also when the last
\* space is within 3 characters of the limit and when the limit is below 3.
C14_TruncateWithinLimit ==
    tout # <<>> =>
        /\ ~tout[1].panic
        /\ Len(tout[1].text) <= tin.limit
        /\ Len(tin.text) <= tin.limit => tout[1].text = tin.text

\* C14 where truncate keeps it: the text fits, or the limit is at least 3
\* and the cut is at least 3 characters before it
C14_TruncateWithinLimitWhenCutEarly ==
    tout # <<>> =>
        LET spaces == { p \in 1..tin.limit : p <= Len(tin.text) /\ tin.text[p] = " " }
            early == IF spaces = {} THEN tin.limit >= 3
                     ELSE \A p \in spaces : p + 2 <= tin.limit
        IN  (Len(tin.text) <= tin.limit \/ early) =>
                /\ ~tout[1].panic
                /\ Len(tout[1].text) <= tin.limit
                /\ Len(tin.text) <= tin.limit => tout[1].text = tin.text

-----------------------------------------------------------------------------
(* C15 *)

\* the address of the input as it has to appear in the output
ExpectedAddress ==
    IF Len(tin.local) > 3
    THEN SubSeq(tin.local, 1, 3) \o <<".", ".", ".">>
         \o <<tin.local[Len(tin.local)]>> \o <<"@">> \o tin.domain
    ELSE EmailAddress(tin)

\* the token is replaced as described, the text around it is unchanged
TokenReplaced == tout[1] = tin.pre \o ExpectedAddress \o tin.post

\* C15: obfuscate_emails replaces an address whose local part is longer
\* than 3 characters by the first 3 characters of the local part, "...",
\* its last character, "@" and the unchanged domain, returns an address
\* with a shorter local part unmodified, leaves the text around the
\* address unchanged, and the original address no longer appears in the
\* output when it was obfuscated.
C15_ObfuscatedAddressGone ==
    tout # <<>> =>
        /\ TokenReplaced
        /\ Len(tin.local) > 3 => ~ContainsText(tout[1], EmailAddress(tin))

\* the local part already has the shape obfuscation gives: three
\* characters, three dots, one character
AlreadyObfuscated ==
    /\ Len(tin.local) = 7
    /\ SubSeq(tin.local, 4, 6) = <<".", ".", ".">>

\* C15 as amended: the replacement is as described, and the original
\* address no longer appears in the output when it was obfuscated, unless
\* its local part already is three characters, "..." and one character:
\* such an address is replaced by itself and appears in the output.
C15_ObfuscatedAddressGoneUnlessFixedPoint ==
    tout # <<>> =>
        /\ TokenReplaced
        /\ Len(tin.local) > 3 =>
              (ContainsText(tout[1], EmailAddress(tin)) <=> AlreadyObfuscated)

\* an obfuscated address inside other text
C15_Witness ==
    /\ tout # <<>>
    /\ tin.local = <<"a", "a", ".", "a", "a">>
    /\ tin.pre = <<"b", " ">>
    /\ tin.post = <<" ", "c">>
    /\ tout[1] = <<"b", " ", "a", "a", ".", ".", ".", ".", "a", "@">>
                    \o tin.domain \o <<" ", "c">>

-----------------------------------------------------------------------------
(* C19 *)

\* the reserved characters of the escaped texts that are no bold, italic,
\* code or link delimiter
LiteralReserved == { ".", "!" }

\* C19: in the output of escape_markdown_v2 every reserved character that
\* lies outside code spans and is no bold, italic, code or link delimiter
\* is immediately preceded by a backslash, also between bold or italic
\* markers and after an unmatched * , _ or [ .
C19_LiteralReservedEscaped ==
    (Len(tout) >= 1 /\ \A k \in 1..Len(tin) : tin[k] # Backtick) =>
        \A i \in 1..Len(tout[1]) :
            tout[1][i] \in LiteralReserved =>
                i > 1 /\ tout[1][i - 1] = "\\"

\* C19 for the texts that hold no marker at all
C19_LiteralReservedEscapedWithoutMarkers ==
    (Len(tout) >= 1 /\ \A k \in 1..Len(tin) : tin[k] \in {"a"} \cup LiteralReserved) =>
        \A i \in 1..Len(tout[1]) :
            tout[1][i] \in LiteralReserved =>
                i > 1 /\ tout[1][i - 1] = "\\"

-----------------------------------------------------------------------------
(* C20 *)

\* how strict the dialect of a submission is, read off its request body
Strictness(sub) ==
    CASE sub.body.parse_mode = Some("MarkdownV2") -> 3
      [] sub.body.parse_mode = Some("HTML") -> 2
      [] OTHER -> 1

\* C20: within one call the dialects submitted never move toward a
\* stricter one (MarkupV2 > HTML > PlainText): no MarkupV2 submission
\* follows an HTML or PlainText one, no HTML submission follows a
\* PlainText one.
C20_NeverTowardStricter ==
    \A i, j \in 1..Len(subs) :
        i < j => Strictness(subs[i]) >= Strictness(subs[j])

\* a call that went down the whole chain and failed at its end
C20_Witness ==
    /\ pc = "done"
    /\ Len(subs) = 3
    /\ Strictness(subs[1]) = 3
    /\ Strictness(subs[2]) = 2
    /\ Strictness(subs[3]) = 1
    /\ IsFailure(Unwrap(result))

-----------------------------------------------------------------------------
(* C16 *)

\* C16: in every interleaving of concurrent send_message calls and
\* settings writers, no thread holds the settings lock while it runs a
\* formatting pass or a transport request: a settings read takes the
\* lock, copies the settings and releases the lock before the thread's
\* next step.
C16_NoLockAcrossFormatOrTransport ==
    \A t \in Threads :
        /\ threads[t].pc \in {"formatting", "sending"} => lock # t
        /\ lock = t => threads[t].pc \in {"cloning", "w_inplace", "w_overwrite"}

\* a thread in its transport request while another thread holds the lock
C16_Witness ==
    \E t, u \in Threads :
        /\ t # u
        /\ threads[t].pc = "sending"
        /\ lock = u

-----------------------------------------------------------------------------
(* C17 *)

\* what get_cloned_instance returned to thread record r
Returned(r) == IF r.site = "client" THEN r.config ELSE r.fconfig

\* no writer is in the middle of its closure or of its overwrite
SettingsComplete ==
    \A w \in Threads : threads[w].pc \notin {"w_inplace", "w_overwrite"}

\* a thread that asks for the settings can take its step whatever the
\* state of the lock
ReadEnabled ==
    \A t \in Threads :
        /\ threads[t].pc = "read" => ENABLED ReadTry(t)
        /\ threads[t].pc = "cloning" => ENABLED ReadClone(t)

\* what the steps of a settings read do: with the lock free the thread
\* takes it and then returns the stored settings, with the lock held it
\* returns the all-defaults settings at once
ReadAsClaimed ==
    \A t \in Threads :
        /\ (threads[t].pc = "read" /\ lock = 0) =>
               (threads'[t].pc # "read" => lock' = t /\ threads'[t].pc = "cloning")
        /\ (threads[t].pc = "read" /\ lock # 0 /\ threads'[t].pc # "read") =>
               /\ lock' = lock
               /\ Returned(threads'[t]) = Some(DefaultConfiguration)
               /\ threads'[t].pc \in {"validate", "formatting"}
        /\ (threads[t].pc = "cloning" /\ threads'[t].pc # "cloning") =>
               /\ SettingsComplete
               /\ Returned(threads'[t]) = Some(config)
               /\ threads'[t].pc \in {"validate", "formatting"}

-----------------------------------------------------------------------------
(* C18 *)

\* the fields a closure sets
SetFields(mutator) == { mutator[k].field : k \in 1..Len(mutator) }

\* the value a closure leaves in field f, as a later read returns it (the
\* setters of the default dialect, the prefix and the suffix store an
\* empty value as unset)
ValueSet(mutator, f) ==
    LET k == CHOOSE i \in 1..Len(mutator) :
                 /\ mutator[i].field = f
                 /\ \A j \in (i + 1)..Len(mutator) : mutator[j].field # f
        v == mutator[k].value
        unset == CASE f = "default_parse_mode" -> v = ""
                   [] f \in {"message_prefix", "message_suffix"} -> Len(v) = 0
                   [] OTHER -> FALSE
    IN  IF unset THEN None ELSE Some(v)

\* thread t found the lock free and its closure has just returned
AppliedInPlace(t) ==
    /\ threads[t].pc = "w_inplace"
    /\ threads[t].next > Len(threads[t].mutator)

-----------------------------------------------------------------------------
(* C21 *)

\* C21: every submission of a call issues exactly one POST, so the POSTs
\* issued are as many as the submissions made; in particular a call whose
\* first submission succeeded has issued one POST in all.
C21_OnePostPerSubmission ==
    /\ posts = Len(subs)
    /\ (pc = "done" /\ Len(subs) = 1 /\ ~IsFailure(subs[1].outcome)) => posts = 1

\* what does hold: a submission issues one POST when the transport fails
\* at once and two otherwise, and its outcome is read off the last one
C21_OneOrTwoPostsPerSubmission ==
    /\ Len(subs) <= posts
    /\ posts <= 2 * Len(subs)
    /\ \A i \in 1..Len(subs) : ~IsTransportFailure(subs[i].outcome) =>
           posts >= i + 1

-----------------------------------------------------------------------------
(* C22 *)

\* the flags stay as the opener left them while the body is read
FlagsHeldInside ==
    \A k \in 0..Len(tin.body) :
        ScanState(tin.fence \o SubSeq(tin.body, 1, k)) = ScanState(tin.fence)

\* C22: a fenced block opened by three backticks is closed by the next
\* three backticks and an inline-code span opened by one backtick by the
\* next backtick; between the opener and its terminator no context flag
\* changes, a single backtick inside a fenced block included, and after the
\* terminator no flag is set and reserved characters are escaped again.
C22_CodeSpanClosedByTerminator ==
    tout # <<>> =>
        /\ FlagsHeldInside
        /\ ScanState(FenceSpan(tin)) = ScanInit
        /\ tout[1] = FenceSpan(tin) \o OneBackslashEach(tin.post)

\* C22 for the code spans whose body holds no backtick
C22_CodeSpanWithoutBacktickClosed ==
    (tout # <<>> /\ \A k \in 1..Len(tin.body) : tin.body[k] # Backtick) =>
        /\ FlagsHeldInside
        /\ ScanState(FenceSpan(tin)) = ScanInit
        /\ tout[1] = FenceSpan(tin) \o OneBackslashEach(tin.post)

-----------------------------------------------------------------------------
(* C23 *)

\* the text the n-th application of escape_markdown_v2 was given, and the
\* text its loop scans
EscapeInput(n) == IF n = 1 THEN tin ELSE tout[n - 1]

Scanned(n) == pre_process_links(EscapeInput(n))

\* the characters that rules 1 to 4 handle when no flag is set
OpeningMarkers == { Backtick, "*", "_", "[" }

\* what a turn pushed, without the backslash it inserted
WithoutInserted(e) == IF Len(e) = 2 /\ e[1] = "\\" THEN Tail(e) ELSE e

RECURSIVE Pushed(_, _)
\* what the turns tr[k..] pushed, in order
Pushed(tr, k) == IF k > Len(tr) THEN <<>> ELSE tr[k].emit \o Pushed(tr, k + 1)

RECURSIVE PushedWithoutInserted(_, _)
\* the same without the inserted backslashes
PushedWithoutInserted(tr, k) ==
    IF k > Len(tr) THEN <<>>
    ELSE WithoutInserted(tr[k].emit) \o PushedWithoutInserted(tr, k + 1)

\* C23: in the scan every reserved character read while the six context
\* flags are all false, and that is no marker of rules 1 to 4, is pushed
\* with exactly one backslash before it; every character that is not
\* reserved is pushed unchanged; and the output without the inserted
\* backslashes is the scanned input, nothing dropped, added or reordered.
C23_ScanEscapesOutsideContexts ==
    \A n \in 1..Len(tout) :
        LET x == Scanned(n)
            tr == ScanTrace(x, 1, ScanInit)
        IN  /\ \A k \in 1..Len(tr) :
                  LET c == x[tr[k].at]
                  IN  /\ (tr[k].st = ScanInit /\ IsSpecial(c)
                            /\ c \notin OpeningMarkers) =>
                             tr[k].emit = <<"\\", c>>
                      /\ ~IsSpecial(c) => tr[k].emit = <<c>>
                      /\ tr[k].next = tr[k].at + Len(WithoutInserted(tr[k].emit))
            /\ Pushed(tr, 1) = tout[n]
            /\ PushedWithoutInserted(tr, 1) = x

\* an unmatched ']' and a '.' read with no flag set, each pushed with one
\* backslash, and the output scanned again
C23_Witness ==
    /\ Len(tout) = 2
    /\ tin = <<"]", "a", ".">>
    /\ tout[1] = <<"\\", "]", "a", "\\", ".">>

-----------------------------------------------------------------------------
(* C24 *)

\* the text format truncates: prefix, text and suffix
Affixed ==
    (IF IsSome(config.message_prefix) THEN Unwrap(config.message_prefix) ELSE <<>>)
        \o tin.text
        \o (IF IsSome(config.message_suffix) THEN Unwrap(config.message_suffix) ELSE <<>>)

\* what escaping makes of each character of t in turn: the character, a
\* backslash and the character, or an entity
EscapeUnits(dialect, t) ==
    CASE dialect = "MarkupV2" ->
           LET tr == ScanTrace(pre_process_links(t), 1, ScanInit)
           IN  [k \in 1..Len(tr) |-> tr[k].emit]
      [] dialect = "HTML" -> [k \in 1..Len(t) |-> escape_html(<<t[k]>>)]
      [] OTHER -> [k \in 1..Len(t) |-> <<t[k]>>]

RECURSIVE UnitsLength(_, _)
\* the length of the first k units together
UnitsLength(units, k) ==
    IF k = 0 THEN 0 ELSE UnitsLength(units, k - 1) + Len(units[k])

\* where the escaped text can be cut without cutting an escape sequence
WholeCuts(dialect, t) ==
    LET units == EscapeUnits(dialect, t)
    IN  { UnitsLength(units, k) : k \in 0..Len(units) }

\* format has cut the escaped text and appended the ellipsis
WasCut ==
    /\ tout # <<>>
    /\ ~tout[1].panic
    /\ IsSome(tin.limit)
    /\ UnitsLength(EscapeUnits(tin.dialect, Affixed),
                   Len(EscapeUnits(tin.dialect, Affixed))) > Unwrap(tin.limit)

\* C24: truncation never cuts inside an escape sequence: the text kept
\* before the ellipsis ends where an escaped character ends, never between
\* a backslash inserted by escaping and its character, never inside an
\* entity.
C24_TruncateKeepsEscapesWhole ==
    WasCut => (Len(tout[1].text) - 3) \in WholeCuts(tin.dialect, Affixed)

\* C24 for plain text, where escaping inserts nothing
C24_PlainTextCutWhole ==
    (WasCut /\ tin.dialect = "PlainText") =>
        (Len(tout[1].text) - 3) \in WholeCuts(tin.dialect, Affixed)

-----------------------------------------------------------------------------
(* C25 *)

\* the dialect a submission names on the wire
TierDialect(sub) ==
    CASE sub.body.parse_mode = Some("MarkdownV2") -> "MarkupV2"
      [] sub.body.parse_mode = Some("HTML") -> "HTML"
      [] OTHER -> "PlainText"

\* the options of a tier: the escaping of its dialect alone, the e-mail
\* obfuscation and the truncation of the initial attempt
TierOptions(dialect) ==
    [ escape_markdown |-> dialect = "MarkupV2",
      escape_html |-> dialect = "HTML",
      obfuscate_emails |-> Unwrap(fmtopts).obfuscate_emails,
      truncate |-> Unwrap(fmtopts).truncate ]

\* the caller's message formatted for a tier
TierText(dialect) ==
    format(message, TierOptions(dialect), Unwrap(snapshot)).text

\* the position of the call before the submission of a dialect
SendPosition ==
    [ p \in {"send_primary", "send_plain", "send_html", "send_html_plain"} |->
        CASE p = "send_primary" -> DialectOf(mode)
          [] p = "send_html" -> "HTML"
          [] OTHER -> "PlainText" ]

\* C25: every tier, the fallback tiers included, submits the caller's
\* original message formatted afresh for the tier's dialect (MarkupV2:
\* markup escaping only, HTML: entity escaping only, PlainText: neither)
\* with the e-mail obfuscation and truncation options of the initial
\* attempt, never the text of an earlier tier or a text made from it.
C25_EveryTierFormatsAfresh ==
    /\ \A i \in 1..Len(subs) :
          /\ subs[i].text = TierText(TierDialect(subs[i]))
          /\ subs[i].body.text = subs[i].text
          /\ \A j \in 1..(i - 1) :
                TierText(TierDialect(subs[i])) # TierText(TierDialect(subs[j]))
                    => subs[i].text # subs[j].text
    /\ pc \in DOMAIN SendPosition => pending = TierText(SendPosition[pc])

\* a call that went through the three tiers with three different texts
C25_Witness ==
    /\ Len(subs) = 3
    /\ message = <<"<">>
    /\ subs[1].text = <<"\\", ">", "<">>
    /\ subs[2].text = <<"&", "g", "t", ";", "&", "l", "t", ";">>
    /\ subs[3].text = <<">", "<">>

-----------------------------------------------------------------------------
(* C26 *)

\* a text without formatting markers as a dialect has to escape it
EscapedWhole(dialect, t) ==
    CASE dialect = "MarkupV2" -> OneBackslashEach(t)
      [] dialect = "HTML" -> escape_html(t)
      [] OTHER -> t

\* C26: the stored prefix and suffix are put around the message before any
\* escaping pass: format(text) is the pipeline applied to prefix + text +
\* suffix, and in every dialect the reserved characters of the prefix and
\* of the suffix are escaped as those of the body are.
C26_AffixesEscapedWithBody ==
    tout # <<>> =>
        /\ tout[1] = format(Affixed, FormatOptions(tin), DefaultConfiguration)
        /\ tin.limit = None =>
              /\ ~tout[1].panic
              /\ tout[1].text = EscapedWhole(tin.dialect, Affixed)

\* a prefix and a suffix with reserved characters around a MarkupV2 message
C26_Witness ==
    /\ tout # <<>>
    /\ config.message_prefix = Some(<<".">>)
    /\ config.message_suffix = Some(<<"<", "a">>)
    /\ tin = [text |-> <<"a", ".">>, dialect |-> "MarkupV2", limit |-> None]
    /\ tout[1].text = <<"\\", ".", "a", "\\", ".", "<", "a">>

-----------------------------------------------------------------------------
(* C27 *)

\* the text of the input up to the end of its link span
UpToLinkEnd ==
    tin.pre \o <<"[">> \o tin.label \o <<"]", "(">> \o tin.target \o <<")">>

\* the text of the input without its link, escaped
EscapedWithoutLink == escape_markdown_v2(tin.pre \o tin.post)

\* C27: scanning a complete link span [label](target) leaves the bold,
\* italic and code flags as they were before the span, whatever reserved
\* characters the label and the target hold, so that the text after the
\* link is escaped exactly as it is without the link.
C27_LinkSpanLeavesFlags ==
    tout # <<>> =>
        /\ ScanState(UpToLinkEnd) = ScanState(tin.pre)
        /\ tout[1] = SubSeq(EscapedWithoutLink, 1, Len(tin.pre))
                        \o ExpectedLinkSpan
                        \o SubSeq(EscapedWithoutLink, Len(tin.pre) + 1,
                                  Len(EscapedWithoutLink))

\* the characters the scan takes for markers inside a link span
SpanMarkers == { "*", "_", Backtick, "[" }

\* C27 for the links whose label and target hold none of * _ ` [
C27_LinkSpanWithoutMarkersLeavesFlags ==
    (/\ tout # <<>>
     /\ \A k \in 1..Len(tin.label) : tin.label[k] \notin SpanMarkers
     /\ \A k \in 1..Len(tin.target) : tin.target[k] \notin SpanMarkers) =>
        /\ ScanState(UpToLinkEnd) = ScanState(tin.pre)
        /\ tout[1] = SubSeq(EscapedWithoutLink, 1, Len(tin.pre))
                        \o ExpectedLinkSpan
                        \o SubSeq(EscapedWithoutLink, Len(tin.pre) + 1,
                                  Len(EscapedWithoutLink))

-----------------------------------------------------------------------------
(* C28 *)

\* the send_message call of thread t has returned, and from its start to
\* its return the stored settings held the token and the chat id that
\* completed writes had put there
ReturnedUnderStoredFields(t) ==
    /\ threads[t].pc = "returned"
    /\ threads[t].outcome # ""
    /\ threads[t].kept

\* C28: a send_message call that starts after a completed write has stored
\* a bot token and a chat id, and during which no write removes them,
\* never returns a Configuration error, whatever other threads take the
\* settings lock during the call.
C28_NoConfigurationErrorUnderContention ==
    \A t \in Threads :
        ReturnedUnderStoredFields(t) => threads[t].outcome # "Configuration"

\* C28 for the calls whose settings reads found the lock free
C28_NoConfigurationErrorWithoutContention ==
    \A t \in Threads :
        (ReturnedUnderStoredFields(t) /\ ~threads[t].contended) =>
            threads[t].outcome # "Configuration"

-----------------------------------------------------------------------------
(* C29 *)

\* a thread inside get_instance_mut can take its step whatever the state
\* of the lock
WriteEnabled ==
    \A t \in Threads :
        /\ threads[t].pc = "w_try" => ENABLED WriteTry(t)
        /\ threads[t].pc = "w_temp" => ENABLED WriteTemp(t)
        /\ threads[t].pc = "w_retry" => ENABLED WriteRetry(t)
        /\ threads[t].pc = "w_overwrite" => ENABLED WriteOverwrite(t)

\* thread t found the lock held at its first try and returns in this step
ContendedWriteReturns(t) ==
    /\ IsSome(threads[t].temp)
    /\ threads[t].pc \in {"w_retry", "w_overwrite"}
    /\ threads'[t].pc = "returned"

\* the closure has run once
RanOnce == \A t \in Threads : ContendedWriteReturns(t) => threads'[t].runs = 1

\* the stored settings are as before, or as before with the closure applied
OtherFieldsKept ==
    \A t \in Threads :
        ContendedWriteReturns(t) =>
            /\ config' = config \/ config' = ApplyAll(config, threads[t].mutator)
            /\ \A f \in DOMAIN config :
                  f \notin SetFields(threads[t].mutator) => config'[f] = config[f]

\* C29: a write that finds the settings lock held never blocks, runs its
\* mutator exactly once, and changes no field of the shared settings that
\* the mutator does not set: when it returns the shared settings are
\* unchanged or are the previous ones with the mutation applied, never the
\* all-defaults settings with the mutation applied.
C29_ContendedWriteKeepsOtherFields ==
    []WriteEnabled /\ [][RanOnce /\ OtherFieldsKept]_vars

\* what does hold of a contended write: it never blocks and runs its
\* mutator once; the stored settings are unchanged or are the all-defaults
\* settings with the mutation applied
C29_ContendedWriteRunsOnceOnDefaults ==
    /\ []WriteEnabled
    /\ [][/\ RanOnce
          /\ \A t \in Threads :
                ContendedWriteReturns(t) =>
                    \/ config' = config
                    \/ config' = ApplyAll(DefaultConfiguration,
                                          threads[t].mutator)]_vars

-----------------------------------------------------------------------------
(* C30 *)

\* the fallback submissions made under a dialect
FallbacksUnder(dialect) ==
    { i \in 2..Len(subs) : TierDialect(subs[i]) = dialect }

\* at most three submissions, one per tier of the chain initial dialect,
\* HTML, PlainText, and at most two when the initial dialect is HTML or
\* PlainText; nothing follows a PlainText fallback, and only the PlainText
\* tier follows the HTML fallback
BoundedCascade ==
    /\ Len(subs) <= 3
    /\ (Len(subs) >= 1 /\ TierDialect(subs[1]) \in {"HTML", "PlainText"}) =>
           Len(subs) <= 2
    /\ FallbacksUnder("MarkupV2") = {}
    /\ Cardinality(FallbacksUnder("HTML")) <= 1
    /\ Cardinality(FallbacksUnder("PlainText")) <= 1
    /\ \A i \in FallbacksUnder("PlainText") : Len(subs) = i
    /\ \A i \in FallbacksUnder("HTML") :
           i = 2 /\ (Len(subs) = 3 => TierDialect(subs[3]) = "PlainText")

\* the call is over
CallOver == pc \in {"done", "panicked"}

\* C30: provided each transport request returns, every send_message call
\* ends after at most three submissions, at most one per tier of the chain
\* initial dialect, HTML, PlainText, and at most two when the initial
\* dialect is HTML or PlainText; no outcome of a fallback submission starts
\* a new cascade.
C30_CallEndsWithinThreeSubmissions ==
    /\ []BoundedCascade
    /\ (pc = "called") ~> CallOver

\* a call that went down the whole chain and whose last submission was
\* refused for its mode, after which it returned
C30_Witness ==
    /\ pc = "done"
    /\ Len(subs) = 3
    /\ IsDialectRejection(subs[3].outcome)
    /\ result = Some(subs[3].outcome)

=============================================================================
